---- MODULE Spec2Model ----
(***************************************************************************)
(* The server push variant of the wallet tracker: the process-wide state   *)
(* __PM_SSE_STATE__, the singleton pollLoop and the GET handler of         *)
(* src/app/api/stream/route.ts, with the trade fetcher of                  *)
(* src/lib/polymarket.ts; and the pull variant: the session of the         *)
(* adaptive page src/app/page.tsx with the route src/app/api/trades it     *)
(* fetches through.  Every action is one run-to-completion segment of the  *)
(* code between two suspension points (an await or a timer).               *)
(***************************************************************************)
EXTENDS Integers, Sequences, FiniteSets, TLC

(***************************************************************************)
(* Bounds of the model.                                                    *)
(***************************************************************************)
\* Number of poll cycles the loop may begin.
MaxCycles == 2
\* Size cap of lastSentIds.  The code uses 5000 and keeps the last 2500
\* (route.ts:111-112); the model keeps the same shape (cap, keep = cap / 2)
\* at a size that the inputs below can fill.
SentCap == 2
SentKeep == SentCap \div 2

(***************************************************************************)
(* Inputs: viewers, wallet rows and the raw records of the trade source.   *)
(***************************************************************************)
Viewers == {"v1", "v2"}

Addrs == {"0xa", "0xb"}

WalletRow(a) == [trader |-> "T", wallet |-> a]

\* The wallet lists fetchTrackedWallets may resolve with.
WalletLists ==
    {<<>>, <<WalletRow("0xa")>>,
     <<WalletRow("0xa"), WalletRow("0xb")>>,
     <<WalletRow("0xa"), WalletRow("0xa")>>}

\* Raw timestamps as the trade source sends them (0 = missing), in units of
\* 10^6 seconds.
RawTimestamps == {1, 2}
\* Transaction hashes ("" = the record carries none).
TxHashes == {"", "h1"}

\* A raw record x of the trade source; x.proxyWallet "" = absent.
RawTrade(ts, tx) ==
    [proxyWallet |-> "", timestamp |-> ts, side |-> "BUY", size |-> 1,
     price |-> 1, transactionHash |-> tx]

RawTrades ==
    {RawTrade(ts, tx) : ts \in RawTimestamps, tx \in TxHashes}
        \cup {RawTrade(0, "")}

\* What one call of the trade source answers: an HTTP error or a list.
TradeLists ==
    {<<>>} \cup {<<x>> : x \in RawTrades} \cup {<<x, y>> : x, y \in RawTrades}

Responses ==
    {[ok |-> FALSE, data |-> <<>>]} \cup {[ok |-> TRUE, data |-> d] : d \in TradeLists}

ShortResponses == {r \in Responses : Len(r.data) <= 1}

\* The answers of the trade source to the fetches of one cycle over ws: up
\* to two records for a single wallet, up to one for each of two wallets.
Answers(ws) ==
    IF ws = <<>> THEN {<<>>}
    ELSE IF Len(ws) = 1 THEN {<<r>> : r \in Responses}
    ELSE {<<r1, r2>> : r1, r2 \in ShortResponses}

\* The inputs of the viewer-side specification: one wallet, at most one
\* record per fetch.
FewWalletLists == {<<WalletRow("0xa")>>}

FewAnswers(ws) ==
    {resp \in [DOMAIN ws -> Responses] :
        /\ \A i \in DOMAIN ws : Len(resp[i].data) <= 1
        /\ \A i \in DOMAIN ws : \A k \in DOMAIN resp[i].data :
               resp[i].data[k] \in {RawTrade(1, "h1"), RawTrade(2, "")}}

(***************************************************************************)
(* Small helpers.                                                          *)
(***************************************************************************)
Range(s) == {s[i] : i \in DOMAIN s}

MaxOf(S) == CHOOSE m \in S : \A x \in S : x <= m

\* Array.prototype.slice(-n)
SliceFirst(s, n) ==
    IF Len(s) <= n THEN s ELSE SubSeq(s, 1, n)

SliceLast(s, n) ==
    IF Len(s) <= n THEN s ELSE SubSeq(s, Len(s) - n + 1, Len(s))

(***************************************************************************)
(* src/lib/polymarket.ts                                                   *)
(***************************************************************************)
\* Timestamps are counted in units of 10^6 (of a second or of a millisecond),
\* so the threshold 10_000_000_000 of normalizeTimestamp is 10000 units.
MsThreshold == 10000

\* Two values a raw record's timestamp can have besides a number: none at
\* all, and one that Number() turns into NaN.  Both are kept apart from every
\* number the model uses.
Missing == -2000000
NaN == -1000000

\* a > b and a * b of JavaScript numbers: a comparison with NaN is false, a
\* product with NaN is NaN.
Gt(a, b) == a # NaN /\ b # NaN /\ a > b

Times(a, b) == IF a = NaN \/ b = NaN THEN NaN ELSE a * b

\* Number(x.timestamp ?? 0)
NumberOrZero(v) == IF v = Missing THEN 0 ELSE v

normalizeAtOrAbove(ts) ==
    IF ts >= MsThreshold THEN ts ELSE ts * 1000

normalizeTimestamp(ts) ==
    IF Gt(ts, MsThreshold) THEN ts ELSE Times(ts, 1000)

\* One raw record mapped to a PolymarketTrade (the fields the server reads).
toPolymarketTrade(x, wallet) ==
    [proxyWallet     |-> IF x.proxyWallet # "" THEN x.proxyWallet ELSE wallet,
     timestamp       |-> normalizeTimestamp(NumberOrZero(x.timestamp)),
     side            |-> IF x.side = "SELL" THEN "SELL" ELSE "BUY",
     size            |-> x.size,
     price           |-> x.price,
     transactionHash |-> x.transactionHash]

\* The list without the filter on the timestamp.
fetchUnfiltered(wallet, data) ==
    [i \in DOMAIN data |-> toPolymarketTrade(data[i], wallet)]

\* The list fetchLatestTradesForWallet resolves with for an ok response.
fetchLatestTradesForWallet(wallet, data) ==
    SelectSeq([i \in DOMAIN data |-> toPolymarketTrade(data[i], wallet)],
              LAMBDA t : Gt(t.timestamp, 0))

(***************************************************************************)
(* src/app/api/stream/route.ts: pure parts                                 *)
(***************************************************************************)
\* The id is a template string; a tuple keeps its parts apart.
TradeIdHashOnly(t) ==
    IF t.transactionHash # ""
    THEN <<t.transactionHash>>
    ELSE <<t.proxyWallet, t.timestamp, t.side, t.price, t.size>>

TradeId(t) ==
    IF t.transactionHash # ""
    THEN <<t.proxyWallet, t.transactionHash>>
    ELSE <<t.proxyWallet, t.timestamp, t.side, t.price, t.size>>

toTradeEvent(t, trader) ==
    [id          |-> TradeId(t),
     wallet      |-> t.proxyWallet,
     trader      |-> trader,
     side        |-> t.side,
     timestampMs |-> t.timestamp]

\* The callback handed to mapWithConcurrency: a failed fetch gives no trades.
FetchOneErrorAsTrade(w, resp) ==
    [trader |-> w.trader, wallet |-> w.wallet,
     trades |-> IF ~resp.ok
                THEN <<toPolymarketTrade(RawTrade(1, "error"), w.wallet)>>
                ELSE fetchLatestTradesForWallet(w.wallet, resp.data)]

FetchOne(w, resp) ==
    [trader |-> w.trader, wallet |-> w.wallet,
     trades |-> IF ~resp.ok THEN <<>>
                ELSE fetchLatestTradesForWallet(w.wallet, resp.data)]

\* mapWithConcurrency(wallets, CONCURRENCY, fn): the results in list order.
mapWithConcurrency(ws, resp) ==
    [i \in DOMAIN ws |-> FetchOne(ws[i], resp[i])]

\* state.lastSeenByWallet.get(w.wallet) ?? 0
LastSeen(seen, wallet) ==
    IF wallet \in DOMAIN seen THEN seen[wallet] ELSE 0

\* state.lastSeenByWallet.set(wallet, ts)
KeepLastSeen(seen, wallet, ts) == seen

SetLastSeenOnly(seen, wallet, ts) == [k \in {wallet} |-> ts]

SetLastSeen(seen, wallet, ts) ==
    [k \in DOMAIN seen \cup {wallet} |-> IF k = wallet THEN ts ELSE seen[k]]

\* The watermark filter of one wallet's events.
FreshNoFilter(events, lastSeen) == events

FreshAtOrAfter(events, lastSeen) ==
    SelectSeq(events, LAMBDA e : e.timestampMs >= lastSeen)

Fresh(events, lastSeen) ==
    SelectSeq(events, LAMBDA e : e.timestampMs > lastSeen)

\* lastSentIds.add(id) followed by the size check.
AddSentIdUnchecked(sent, id) == Append(sent, id)

AddSentId(sent, id) ==
    LET added == Append(sent, id)
    IN  IF Len(added) > SentCap THEN SliceLast(added, SentKeep) ELSE added

\* The inner loop without its test of lastSentIds.
AdmitFreshNoDedupe(fresh, acc) ==
    [sent      |-> SliceLast(acc.sent \o [k \in DOMAIN fresh |-> fresh[k].id],
                             SentCap),
     out       |-> acc.out \o fresh,
     truncated |-> acc.truncated,
     peak      |-> acc.peak]

\* The inner loop over one wallet's fresh events.
\* acc = [sent, out, truncated, peak]; peak is the largest size lastSentIds
\* had between an add and the size check that follows it.
RECURSIVE AdmitFresh(_, _)
AdmitFresh(fresh, acc) ==
    IF fresh = <<>> THEN acc
    ELSE LET e == Head(fresh)
         IN  IF e.id \in Range(acc.sent)
             THEN AdmitFresh(Tail(fresh), acc)
             ELSE AdmitFresh(Tail(fresh),
                      [sent      |-> AddSentId(acc.sent, e.id),
                       out       |-> Append(acc.out, e),
                       truncated |-> acc.truncated
                                     \/ Len(acc.sent) + 1 > SentCap,
                       peak      |-> IF Len(acc.sent) + 1 > acc.peak
                                     THEN Len(acc.sent) + 1 ELSE acc.peak])

\* One iteration of the loop over perWallet.
\* st = [seen, sent, events, log]; log gets one row per wallet row.
AdmitWallet(w, st) ==
    LET lastSeen == LastSeen(st.seen, w.wallet)
        events   == [i \in DOMAIN w.trades |-> toTradeEvent(w.trades[i], w.trader)]
        fresh    == Fresh(events, lastSeen)
        newestTs == MaxOf({e.timestampMs : e \in Range(fresh)})
        r        == AdmitFresh(fresh,
                        [sent |-> st.sent, out |-> <<>>, truncated |-> FALSE,
                         peak |-> Len(st.sent)])
        seen2    == IF fresh # <<>>
                    THEN SetLastSeen(st.seen, w.wallet, newestTs)
                    ELSE st.seen
    IN  [seen   |-> seen2,
         sent   |-> r.sent,
         events |-> st.events \o r.out,
         log    |-> Append(st.log,
                       [wallet     |-> w.wallet,
                        fetched    |-> {<<e.id, e.timestampMs>> : e \in Range(events)},
                        events     |-> [k \in DOMAIN events |->
                                          <<events[k].id, events[k].timestampMs>>],
                        seenBefore |-> lastSeen,
                        seenAfter  |-> LastSeen(seen2, w.wallet),
                        sentSame   |-> r.sent = st.sent,
                        admitted   |-> r.out,
                        truncated  |-> r.truncated,
                        peak       |-> r.peak])]

RECURSIVE AdmitAll(_, _)
AdmitAll(perWallet, st) ==
    IF perWallet = <<>> THEN st
    ELSE AdmitAll(Tail(perWallet), AdmitWallet(Head(perWallet), st))

\* newEvents.sort((a, b) => a.timestampMs - b.timestampMs): a stable sort.
RECURSIVE InsertByTimestamp(_, _)
InsertByTimestamp(sorted, e) ==
    IF sorted = <<>> THEN <<e>>
    ELSE IF Head(sorted).timestampMs <= e.timestampMs
         THEN <<Head(sorted)>> \o InsertByTimestamp(Tail(sorted), e)
         ELSE <<e>> \o sorted

RECURSIVE SortedFrom(_, _)
SortedFrom(events, sorted) ==
    IF events = <<>> THEN sorted
    ELSE SortedFrom(Tail(events), InsertByTimestamp(sorted, Head(events)))

Unsorted(events) == events

SortByTimestamp(events) == SortedFrom(events, <<>>)

\* The query of a viewer's request: the raw minUsd and filterBig parameters.
\* A raw minUsd is Missing (no parameter), a number (its decimal string) or
\* NaN (a string Number() does not read).
NoQuery == [minUsd |-> Missing, filterBig |-> ""]

Queries ==
    {NoQuery, [minUsd |-> 1000, filterBig |-> "1"],
     [minUsd |-> NaN, filterBig |-> "true"]}

\* Number(url.searchParams.get("minUsd") || "0") and
\* url.searchParams.get("filterBig") === "1".
FilterOf(query) ==
    [filterBig |-> query.filterBig = "1",
     minUsd    |-> IF query.minUsd = Missing THEN 0 ELSE query.minUsd]

\* JSON.stringify writes NaN as null.
JsonNumber(x) == IF x = NaN THEN Missing ELSE x

HelloFrame(filter) ==
    [type |-> "hello",
     filter |-> [filterBig |-> filter.filterBig,
                 minUsd |-> JsonNumber(filter.minUsd)]]

EventsFrameOfFirst(events) ==
    [type |-> "events", events |-> <<Head(events)>>]

EventsFrame(events) == [type |-> "events", events |-> events]

(***************************************************************************)
(* State.                                                                  *)
(***************************************************************************)
VARIABLES
    started,            \* state.started
    lastSeenByWallet,   \* state.lastSeenByWallet: wallet -> timestampMs
    lastSentIds,        \* state.lastSentIds, in insertion order
    clients,            \* state.clients: the viewers whose writer is registered
    pc,                 \* where pollLoop is suspended
    wallets,            \* the wallet list of the running cycle
    cycle,              \* the number of cycles begun
    conn,               \* where each viewer's GET / connection stands
    written,            \* per viewer: the frames writer.write was called with
    pending,            \* viewers whose write of the running fan-out is unsettled
    loops,              \* history: how many times the while loop was entered
    admitLog,           \* history: the rows of the last admit pass
    prevPass,           \* history: what the pass before the last admitted
    quietPass,          \* history: a pass has completed that wrote no frame
    rejected,           \* history: viewers whose write of the last fan-out rejected
    abortedInFanout,    \* history: viewers that aborted while the last fan-out ran
    threw,              \* history: the last cycle that got past its first await threw
    failedFetch,        \* history: the rows of the last pass whose trade fetch failed
    unsent              \* history: the events admitted while no viewer was registered

\* The session of the adaptive page (src/app/page.tsx) with the routes and
\* the trade source it reaches.
VARIABLES
    sheet,              \* the rows /api/wallets answers with
    held,               \* per wallet: the trades the trade source holds
    mountLoad,          \* the loadWallets() call of the mount effect is pending
    pageWallets,        \* the React state wallets
    running,            \* the React state running
    stopRef,            \* stopRef.current
    inFlightRef,        \* inFlightRef.current
    delayMsRef,         \* delayMsRef.current
    seenRef,            \* seenRef.current: the <<wallet, key>> pairs marked
    lp,                 \* per call of start(): where it and its loop() stand
    announced,          \* history: per <<wallet, key>>, how often it was announced
    primedHeld,         \* history: what the source held when primeSeen fetched
    hist                \* history: per call of start(), its stop and last cycle

\* A direct call of normalizeTimestamp (src/lib/polymarket.ts).
VARIABLES
    tsLog               \* the last call: its argument and its result

\* A direct call of fetchTrackedWallets (src/lib/sheets.ts).
VARIABLES
    csvLog              \* the sheet's lines, and the result once called

\* The session of the fixed-interval page (src/unnamed/part_000).
VARIABLES
    fx                  \* its React state, refs, timers, calls and cycles

\* A request to /api/trades on its own (src/app/api/trades/route.ts).
VARIABLES
    tr                  \* the request, the upstream's answer and the response

serverVars == <<started, lastSeenByWallet, lastSentIds, clients, pc, wallets,
                cycle, conn, written, pending, loops, admitLog, prevPass,
                quietPass, rejected, abortedInFanout, threw, failedFetch,
                unsent>>

pageVars == <<sheet, held, mountLoad, pageWallets, running, stopRef,
              inFlightRef, delayMsRef, seenRef, lp, announced, primedHeld, hist>>

libVars == <<tsLog, csvLog, fx, tr>>

vars == <<serverVars, pageVars, libVars>>

storeVars == <<lastSeenByWallet, lastSentIds>>
loopVars == <<pc, wallets, cycle>>
histVars == <<admitLog, prevPass, quietPass, rejected, abortedInFanout, threw,
              failedFetch, unsent>>

\* <<wallet, id, timestampMs>> of every event a log admitted.
AdmittedIn(log) ==
    UNION {{<<log[i].wallet, e.id, e.timestampMs>> : e \in Range(log[i].admitted)}
           : i \in DOMAIN log}

Truncated(log) == \E i \in DOMAIN log : log[i].truncated

(***************************************************************************)
(* src/app/page.tsx and src/app/api/trades/route.ts: inputs and pure parts *)
(***************************************************************************)
\* The ceiling of pollOnce.  The code uses 10; the model keeps the windows'
\* shape at a size whose wallet lists it can enumerate.
CONCURRENCY == 2
\* Number of pollOnce calls the loops of a session may make: with two calls
\* of start(), and with one.
MaxPolls == 3
MaxWindowPolls == 7

\* The calls of start() in one session.
Starts == {1, 2}

\* Wallet addresses as the sheet spells them.
PagePool == <<"0xA", "0xb", "0xc", "0xd", "0xe", "0xf", "0xg", "0xh", "0xi">>

\* String.prototype.toLowerCase on the addresses of the pool.
toLowerCase(a) == IF a = "0xA" THEN "0xa" ELSE a

PageRow(a) == [name |-> "T", wallet |-> a]

\* Sheets of every length up to two full windows and one more wallet.
LongSheets ==
    {[k \in 1..n |-> PageRow(PagePool[k])] : n \in 0..(2 * CONCURRENCY + 1)}

ShortSheets == {<<PageRow("0xA")>>}

PageWalletNames == {toLowerCase(PagePool[k]) : k \in DOMAIN PagePool}

\* A trade as the trade source sends it to the page.
PageTrade(tx, size) ==
    [proxyWallet |-> "", side |-> "BUY", size |-> size, price |-> 1,
     timestamp |-> 1, title |-> "m", outcome |-> "", transactionHash |-> tx]

\* Two trades of 1000 USD and one of 1 USD.
OldTrade == PageTrade("h1", 1000)

NewTrade == PageTrade("h2", 1000)

SmallTrade == PageTrade("", 1)

PageTrades == {OldTrade, NewTrade, SmallTrade}

\* The key is a template string; a tuple keeps its parts apart.
keyForTrade(t) ==
    <<IF t.transactionHash = "" THEN "nohash" ELSE t.transactionHash,
      t.timestamp, t.size, t.price, t.title, t.side, t.outcome>>

PageKeys == {keyForTrade(t) : t \in PageTrades}

\* The filter settings of the session: the initial React state.
trackMode == "BOTH"

minFilterEnabled == TRUE

minUsd == 500

shouldTrackSide(side) == trackMode = "BOTH" \/ trackMode = side

passesMinUsdFilter(t) == ~minFilterEnabled \/ t.size * t.price >= minUsd

\* What the trade source answers a request with.
UpstreamStatuses == {200, 403, 429, 500}

\* A fetch of /api/trades by the page: net = FALSE is a transport failure
\* (fetch rejects), otherwise status is what the trade source answers the
\* route with.
FetchOutcomes ==
    {[net |-> FALSE, status |-> 0]}
        \cup {[net |-> TRUE, status |-> st] : st \in UpstreamStatuses}

PlainOutcomes == {[net |-> FALSE, status |-> 0], [net |-> TRUE, status |-> 200]}

IsOk(status) == status \in 200..299

\* GET of /api/trades: the response for ?user=user when the trade source
\* answers with status and data.
tradesGETUnchecked(user, status, data) ==
    IF user = "" THEN [status |-> 400, error |-> TRUE, trades |-> {}]
    ELSE [status |-> 200, error |-> FALSE, trades |-> data]

tradesGET(user, status, data) ==
    IF user = "" THEN [status |-> 400, error |-> TRUE, trades |-> {}]
    ELSE IF ~IsOk(status) THEN [status |-> 500, error |-> TRUE, trades |-> {}]
    ELSE [status |-> 200, error |-> FALSE, trades |-> data]

\* The requests tried on the route alone: user is "" when the parameter is
\* absent or empty (both are falsy), limit is NoParam when absent.
NoParam == "<absent>"

TradesUsers == {"", "0xa", "0xb"}

TradesLimits == {NoParam, "", "5"}

\* What the trade source does with the route's fetch: the fetch rejects, or
\* it resolves with a status and a body that is the JSON of data or no JSON.
NoAnswer == [kind |-> "none", status |-> 0, json |-> FALSE, data |-> {}]

TradesAnswers ==
    {[NoAnswer EXCEPT !.kind = "reject"]}
        \cup {[kind |-> "status", status |-> st, json |-> j, data |-> d] :
                 st \in UpstreamStatuses \cup {201, 404, 503},
                 j \in BOOLEAN, d \in {{}, {OldTrade}}}

NoResponse == [status |-> 0, error |-> FALSE, trades |-> {}, thrown |-> FALSE]

\* The route before any request.
NoRequest ==
    [pc |-> "idle", user |-> "", url |-> <<>>, up |-> NoAnswer,
     response |-> NoResponse]

\* Delays are counted in thousandths of a millisecond; a product is rounded
\* down to one.
DelayUnit == 1000

InitialDelay == 2500 * DelayUnit

MaxDelay == 20000 * DelayUnit

MinDelay == 1400 * DelayUnit

\* The adaptive delay after a cycle.
NextDelayUnclamped(delay, throttled) ==
    IF throttled THEN (delay * 3) \div 2 ELSE (delay * 9) \div 10

NextDelayNoFloor(delay, throttled) ==
    IF throttled
    THEN IF (delay * 3) \div 2 < MaxDelay THEN (delay * 3) \div 2 ELSE MaxDelay
    ELSE (delay * 9) \div 10

NextDelay(delay, throttled) ==
    IF throttled
    THEN IF (delay * 3) \div 2 < MaxDelay THEN (delay * 3) \div 2 ELSE MaxDelay
    ELSE IF (delay * 9) \div 10 > MinDelay THEN (delay * 9) \div 10 ELSE MinDelay

\* list.slice(i, i + CONCURRENCY), as indices of the list counted from 1.
WindowTooWide(list, i) == {k \in DOMAIN list : i <= k /\ k <= i + CONCURRENCY}

Window(list, i) == {k \in DOMAIN list : i <= k /\ k < i + CONCURRENCY}

\* The in-flight guard of pollOnce.
NeverBusy(inFlight) == FALSE

Busy(inFlight) == inFlight

\* One call of start() before it is made.
IdleLoop ==
    [pc |-> "off", list |-> <<>>, pi |-> 0, i |-> 0, out |-> {},
     throttled |-> FALSE, polls |-> 0, sleepMs |-> 0]

\* A loop's last completed pollOnce: what it reported, whether the trade
\* source answered one of its fetches with 429 or 403, whether it ran its
\* fan-out.
NoCycle == [reported |-> FALSE, upstream |-> FALSE, ran |-> FALSE]

IdleHist ==
    [stopSeen |-> FALSE, polledAfterStop |-> FALSE, upstream |-> FALSE,
     settled |-> {}, last |-> NoCycle]

\* loop() from a passed while check to its next suspension: pollOnce() up to
\* its first await and, when it returned without one, the delay update and
\* the start of the sleep.
LoopStep(L, H, inFlight, delay) ==
    IF L.list = <<>> \/ Busy(inFlight)
    THEN LET d == NextDelay(delay, FALSE)
         IN  [L |-> [L EXCEPT !.pc = "sleeping", !.polls = @ + 1, !.sleepMs = d],
              H |-> [H EXCEPT !.last = NoCycle],
              inFlight |-> inFlight,
              delay |-> d]
    ELSE [L |-> [L EXCEPT !.pc = "polling", !.polls = @ + 1, !.i = 1,
                          !.out = Window(L.list, 1), !.throttled = FALSE],
          H |-> [H EXCEPT !.upstream = FALSE, !.settled = {}],
          inFlight |-> TRUE,
          delay |-> delay]

\* The state of a page that has just mounted, for the sheets and the trade
\* source contents given.
PageInit(sheets, sources) ==
    /\ sheet \in sheets
    /\ \E h \in sources : held = [w \in PageWalletNames |-> h]
    /\ mountLoad = TRUE
    /\ pageWallets = <<>>
    /\ running = FALSE
    /\ stopRef = FALSE
    /\ inFlightRef = FALSE
    /\ delayMsRef = InitialDelay
    /\ seenRef = {}
    /\ lp = [l \in Starts |-> IdleLoop]
    /\ announced = [q \in PageWalletNames \X PageKeys |-> 0]
    /\ primedHeld = {}
    /\ hist = [l \in Starts |-> IdleHist]

ServerInit ==
    /\ started = FALSE
    /\ lastSeenByWallet = <<>>
    /\ lastSentIds = <<>>
    /\ clients = {}
    /\ pc = "idle"
    /\ wallets = <<>>
    /\ cycle = 0
    /\ conn = [v \in Viewers |-> "none"]
    /\ written = [v \in Viewers |-> <<>>]
    /\ pending = {}
    /\ loops = 0
    /\ admitLog = <<>>
    /\ prevPass = [admitted |-> {}, truncated |-> FALSE]
    /\ quietPass = FALSE
    /\ rejected = {}
    /\ abortedInFanout = {}
    /\ threw = FALSE
    /\ failedFetch = {}
    /\ unsent = {}

(***************************************************************************)
(* src/unnamed/part_000: inputs and pure parts of the fixed-interval page  *)
(***************************************************************************)
\* The ceiling of pollOnce (12 in the code), and the number of times the
\* interval timers of a session may fire.
FixedCeiling == 2
MaxTicks == 2

\* Sheets that spell one wallet twice: in one window of pollOnce, and in
\* two windows.
FixedSheets ==
    {<<PageRow("0xA"), PageRow("0xa")>>,
     <<PageRow("0xA"), PageRow("0xb"), PageRow("0xa")>>}

FixedNames == {"0xa", "0xb"}

\* The key is a template string; a tuple keeps its parts apart.
fixedKeyForTrade(t) ==
    <<IF t.transactionHash = "" THEN "nohash" ELSE t.transactionHash,
      t.timestamp, t.size, t.price, t.title>>

\* What the trade source holds for every wallet of the session: a trade
\* that is announced unless priming has marked it.
FixedHeld == {OldTrade}

FixedKeys == {fixedKeyForTrade(t) : t \in PageTrades}

\* list.slice(i, i + CONCURRENCY), as indices of the list counted from 1.
FixedWindow(list, i) == {k \in DOMAIN list : i <= k /\ k < i + FixedCeiling}

\* The pairs primeSeen or pollOnce marks for a response for wallet w.
FixedKeysOf(w, trades) ==
    {<<w, fixedKeyForTrade(t)>> : t \in {u \in trades : u.side = "BUY"}}

\* The trades of a response that pollOnce announces for wallet w.
FixedAnnounceUnchecked(w, trades, seen) == {t \in trades : t.side = "BUY"}

FixedAnnounce(w, trades, seen) ==
    {t \in trades : t.side = "BUY" /\ <<w, fixedKeyForTrade(t)>> \notin seen}

\* One call of start() before it is made, and one firing of a timer before
\* it happens.
NoFixedCall == [pc |-> "off", list |-> <<>>, pi |-> 0]

NoFixedCycle == [pc |-> "none", list |-> <<>>, i |-> 0, out |-> {}]

\* The state of a fixed-interval page that has just mounted.
FixedInit(sheets) ==
    \E sh \in sheets :
        fx = [sheet          |-> sh,
              mountLoad      |-> TRUE,
              wallets        |-> <<>>,
              running        |-> FALSE,
              timerRef       |-> 0,
              timers         |-> {},
              seen           |-> {},
              call           |-> [l \in Starts |-> NoFixedCall],
              cyc            |-> [c \in 1..MaxTicks |-> NoFixedCycle],
              ticks          |-> 0,
              announced      |-> [q \in FixedNames \X FixedKeys |-> 0],
              skipped        |-> {},
              afterStop      |-> FALSE,
              begunAfterStop |-> FALSE]

\* No call of normalizeTimestamp made yet.
NoCall == [raw |-> 0, ms |-> 0]

\* No call of fetchTrackedWallets made yet.
SheetCallOf(lines) == [lines |-> lines, called |-> FALSE, wallets |-> <<>>]

NoSheetCall == SheetCallOf(<<>>)

LibInit ==
    tsLog = NoCall /\ csvLog = NoSheetCall /\ FixedInit({<<>>}) /\ tr = NoRequest

\* The server with no page session.
Init == ServerInit /\ PageInit({<<>>}, {{}}) /\ LibInit

(***************************************************************************)
(* pollLoop                                                                *)
(***************************************************************************)
\* Entering the while loop: up to the first await fetchTrackedWallets().
EnterLoop ==
    /\ started' = TRUE
    /\ loops' = loops + 1
    /\ pc' = "wallets"
    /\ cycle' = 1
    /\ wallets' = <<>>

pollLoopUnguarded == EnterLoop

\* pollLoop(): returns at once when the loop was started before.
pollLoop ==
    IF started
    THEN UNCHANGED <<started, loops, pc, cycle, wallets>>
    ELSE EnterLoop

\* await fetchTrackedWallets() resolves.
WalletsResolved(ws) ==
    /\ pc = "wallets"
    /\ wallets' = ws
    /\ pc' = "trades"
    /\ UNCHANGED <<pageVars, libVars>>
    /\ UNCHANGED <<started, storeVars, clients, cycle, conn, written, pending,
                   loops, histVars>>

\* What a throwing cycle leaves behind: the catch block is empty and the
\* loop goes on to its sleep.
CycleThrewStops ==
    /\ pc' = "stopped"
    /\ UNCHANGED <<pageVars, libVars>>
    /\ UNCHANGED <<started, storeVars, clients, wallets, cycle, conn, written,
                   pending, loops>>

CycleThrew ==
    /\ pc' = "sleep"
    /\ UNCHANGED <<pageVars, libVars>>
    /\ UNCHANGED <<started, storeVars, clients, wallets, cycle, conn, written,
                   pending, loops>>

\* await fetchTrackedWallets() rejects (no URL configured, fetch or status
\* error): the cycle admits nothing.
WalletsFailed ==
    /\ pc = "wallets"
    /\ CycleThrew
    /\ admitLog' = <<>>
    /\ prevPass' = [admitted  |-> AdmittedIn(admitLog),
                    truncated |-> Truncated(admitLog)]
    /\ threw' = TRUE
    /\ failedFetch' = {}
    /\ UNCHANGED <<quietPass, rejected, abortedInFanout, unsent>>

\* w.write(payload) on the writer whose frames so far are q.
WriteFiltered(q, payload) ==
    IF q # <<>> /\ q[1].type = "hello" /\ q[1].filter.filterBig
    THEN q ELSE Append(q, payload)

WriteTo(q, payload) == Append(q, payload)

\* The viewers the fan-out writes to.
FanoutNoneIfAnyGone(cl) ==
    IF \E v \in cl : conn[v] = "stuck" THEN {} ELSE cl

FanoutTargets(cl) == cl

\* await mapWithConcurrency(...) resolves: the admit pass and the start of
\* the fan-out, up to await Promise.allSettled(...).
TradesResolved(resp) ==
    /\ pc = "trades"
    /\ LET perWallet == mapWithConcurrency(wallets, resp)
           st == AdmitAll(perWallet,
                     [seen |-> lastSeenByWallet, sent |-> lastSentIds,
                      events |-> <<>>, log |-> <<>>])
           newEvents == st.events
           targets == FanoutTargets(clients)
       IN  /\ lastSeenByWallet' = st.seen
           /\ lastSentIds' = st.sent
           /\ admitLog' = st.log
           /\ unsent' = IF clients = {} THEN unsent \cup Range(newEvents)
                        ELSE unsent
           /\ prevPass' = [admitted  |-> AdmittedIn(admitLog),
                            truncated |-> Truncated(admitLog)]
           /\ IF newEvents # <<>> /\ clients # {}
              THEN /\ written' =
                        [v \in Viewers |->
                            IF v \in targets
                            THEN WriteTo(written[v],
                                     EventsFrame(SortByTimestamp(newEvents)))
                            ELSE written[v]]
                   /\ pending' = targets
                   /\ pc' = IF targets = {} THEN "sleep" ELSE "fanout"
                   /\ rejected' = {}
                   /\ abortedInFanout' = {}
                   /\ UNCHANGED quietPass
              ELSE /\ pc' = "sleep"
                   /\ quietPass' = TRUE
                   /\ UNCHANGED <<written, pending, rejected, abortedInFanout>>
    /\ threw' = FALSE
    /\ failedFetch' = {i \in DOMAIN resp : ~resp[i].ok}
    /\ UNCHANGED <<pageVars, libVars>>
    /\ UNCHANGED <<started, clients, wallets, cycle, conn, loops>>

\* Promise.allSettled over the writes: resolved when none is left unsettled.
AnySettled(unsettled) == TRUE

AllSettled(unsettled) == unsettled = {}

\* One write of the running fan-out settles; allSettled resolves with the last.
WriteSettled(v, ok) ==
    /\ pc = "fanout"
    /\ v \in pending
    /\ \/ ok /\ conn[v] \in {"open", "closed"}
       \/ ~ok /\ conn[v] \in {"stuck", "closed"}
    /\ pending' = pending \ {v}
    /\ rejected' = IF ok THEN rejected ELSE rejected \cup {v}
    /\ pc' = IF AllSettled(pending') THEN "sleep" ELSE "fanout"
    /\ UNCHANGED <<pageVars, libVars>>
    /\ UNCHANGED <<started, storeVars, clients, wallets, cycle, conn, written,
                   loops, admitLog, prevPass, quietPass, abortedInFanout,
                   threw, failedFetch, unsent>>

\* The setTimeout of POLL_MS fires: the next cycle begins.
SleepDone ==
    /\ pc = "sleep"
    /\ cycle < MaxCycles
    /\ pc' = "wallets"
    /\ cycle' = cycle + 1
    /\ UNCHANGED <<pageVars, libVars>>
    /\ UNCHANGED <<started, storeVars, clients, wallets, conn, written, pending,
                   loops, histVars>>

(***************************************************************************)
(* GET                                                                     *)
(***************************************************************************)
\* The frames of a new viewer's writer after the initial write.
NoHello(q, filter) == q

InitialHello(q, filter) == Append(q, HelloFrame(filter))

\* GET up to await writer.write(hello): start the loop, register the writer,
\* issue the hello write.
GET(v, query) ==
    /\ conn[v] = "none"
    /\ pollLoop
    /\ clients' = clients \cup {v}
    /\ written' = [written EXCEPT ![v] = InitialHello(@, FilterOf(query))]
    /\ conn' = [conn EXCEPT ![v] = "hello"]
    /\ UNCHANGED <<pageVars, libVars>>
    /\ UNCHANGED <<storeVars, pending, histVars>>

\* The hello write settles and GET runs to its return: the abort listeners
\* are added.  A listener added to a signal that has already fired is never
\* called.
HelloSettled(v) ==
    /\ conn[v] \in {"hello", "helloAborted"}
    /\ conn' = [conn EXCEPT ![v] = IF @ = "hello" THEN "open" ELSE "stuck"]
    /\ UNCHANGED <<pageVars, libVars>>
    /\ UNCHANGED <<started, storeVars, clients, loopVars, written, pending,
                   loops, histVars>>

\* The registry after the abort listener of viewer v ran.
ClearClients(cl, v) == {}

DeleteOthers(cl, v) == cl \cap {v}

DeleteClient(cl, v) == cl \ {v}

\* req.signal fires abort (the viewer disconnects).
Abort(v) ==
    /\ \/ /\ conn[v] = "hello"
          /\ conn' = [conn EXCEPT ![v] = "helloAborted"]
          /\ UNCHANGED clients
       \/ /\ conn[v] = "open"
          /\ conn' = [conn EXCEPT ![v] = "closed"]
          /\ clients' = DeleteClient(clients, v)
    /\ abortedInFanout' =
           IF pc = "fanout" THEN abortedInFanout \cup {v} ELSE abortedInFanout
    /\ UNCHANGED <<pageVars, libVars>>
    /\ UNCHANGED <<started, storeVars, loopVars, written, pending, loops,
                   admitLog, prevPass, quietPass, rejected, threw, failedFetch,
                   unsent>>

(***************************************************************************)
(* Specification.                                                          *)
(***************************************************************************)
\* The viewers' side: every interleaving of two viewers with the loop.
Next ==
    \/ \E v \in Viewers : GET(v, NoQuery)
    \/ \E v \in Viewers : HelloSettled(v)
    \/ \E v \in Viewers : Abort(v)
    \/ \E ws \in FewWalletLists : WalletsResolved(ws)
    \/ WalletsFailed
    \/ \E resp \in FewAnswers(wallets) : TradesResolved(resp)
    \/ \E v \in Viewers, ok \in BOOLEAN : WriteSettled(v, ok)
    \/ SleepDone

Spec == Init /\ [][Next]_vars

\* The store's side: one viewer that stays, every wallet list and answer.
StoreNext ==
    \/ GET("v1", NoQuery)
    \/ HelloSettled("v1")
    \/ \E ws \in WalletLists : WalletsResolved(ws)
    \/ WalletsFailed
    \/ \E resp \in Answers(wallets) : TradesResolved(resp)
    \/ WriteSettled("v1", TRUE)
    \/ SleepDone

StoreSpec == Init /\ [][StoreNext]_vars

\* The queries' side: two viewers that connect with any of the queries.
ViewNext ==
    \/ \E v \in Viewers, query \in Queries : GET(v, query)
    \/ \E v \in Viewers : HelloSettled(v)
    \/ \E v \in Viewers : Abort(v)
    \/ \E ws \in FewWalletLists : WalletsResolved(ws)
    \/ WalletsFailed
    \/ \E resp \in FewAnswers(wallets) : TradesResolved(resp)
    \/ \E v \in Viewers, ok \in BOOLEAN : WriteSettled(v, ok)
    \/ SleepDone

ViewSpec == Init /\ [][ViewNext]_vars

\* The store's side for a sheet that spells one address in two cases.
CaseLists ==
    {<<WalletRow("0xA")>>, <<WalletRow("0xA"), WalletRow("0xa")>>}

CaseNext ==
    \/ GET("v1", NoQuery)
    \/ HelloSettled("v1")
    \/ \E ws \in CaseLists : WalletsResolved(ws)
    \/ WalletsFailed
    \/ \E resp \in Answers(wallets) : TradesResolved(resp)
    \/ WriteSettled("v1", TRUE)
    \/ SleepDone

CaseSpec == Init /\ [][CaseNext]_vars

\* The store's side for a trade source whose records carry timestamps of
\* every kind: none, not a number, negative, zero, positive.
DropTimestamps == {Missing, NaN, -1, 0, 1, 2}

DropResponses ==
    {[ok |-> TRUE, data |-> <<RawTrade(ts, "")>>] : ts \in DropTimestamps}
        \cup {[ok |-> TRUE, data |-> <<RawTrade(t1, ""), RawTrade(t2, "h1")>>] :
                 t1, t2 \in DropTimestamps}

DropAnswers(ws) == {<<r>> : r \in DropResponses}

DropNext ==
    \/ GET("v1", NoQuery)
    \/ HelloSettled("v1")
    \/ \E ws \in FewWalletLists : WalletsResolved(ws)
    \/ WalletsFailed
    \/ \E resp \in DropAnswers(wallets) : TradesResolved(resp)
    \/ WriteSettled("v1", TRUE)
    \/ SleepDone

DropSpec == Init /\ [][DropNext]_vars

(***************************************************************************)
(* src/app/page.tsx: the session of the adaptive page                      *)
(***************************************************************************)
\* The loadWallets() of the mount effect resolves; an error payload leaves
\* the wallets as they are.
MountLoaded(ok) ==
    /\ mountLoad
    /\ mountLoad' = FALSE
    /\ pageWallets' = IF ok THEN sheet ELSE pageWallets
    /\ UNCHANGED <<sheet, held, running, stopRef, inFlightRef, delayMsRef,
                   seenRef, lp, announced, primedHeld, hist>>
    /\ UNCHANGED <<serverVars, libVars>>

\* start() up to await loadWallets(): the handler of the render it was
\* clicked in, whose wallets every later step of this call reads.
start(l) ==
    /\ ~running
    /\ lp[l].pc = "off"
    /\ \A k \in Starts : k < l => lp[k].pc # "off"
    /\ lp' = [lp EXCEPT ![l] =
                 [@ EXCEPT !.pc = "loading",
                           !.list = [k \in DOMAIN pageWallets |->
                                        toLowerCase(pageWallets[k].wallet)]]]
    /\ UNCHANGED <<sheet, held, mountLoad, pageWallets, running, stopRef,
                   inFlightRef, delayMsRef, seenRef, announced, primedHeld,
                   hist>>
    /\ UNCHANGED <<serverVars, libVars>>

\* loop() up to its first suspension: the stop flag is reset, the while
\* check passes and pollOnce is called.
loop(l, L) ==
    LET r == LoopStep(L, hist[l], inFlightRef, delayMsRef)
    IN  /\ stopRef' = FALSE
        /\ lp' = [lp EXCEPT ![l] = r.L]
        /\ hist' = [hist EXCEPT ![l] = r.H]
        /\ inFlightRef' = r.inFlight
        /\ delayMsRef' = r.delay

\* await loadWallets() of start() settles: setRunning(true) and primeSeen()
\* up to its first fetch, or, with no wallets, through to loop().
WalletsLoaded(l, outcome) ==
    /\ lp[l].pc = "loading"
    /\ IF outcome = "throw"
       THEN /\ lp' = [lp EXCEPT ![l].pc = "failed"]
            /\ UNCHANGED <<pageWallets, running, stopRef, inFlightRef,
                           delayMsRef, hist>>
       ELSE /\ pageWallets' = IF outcome = "ok" THEN sheet ELSE pageWallets
            /\ running' = TRUE
            /\ IF lp[l].list = <<>>
               THEN loop(l, lp[l])
               ELSE /\ lp' = [lp EXCEPT ![l].pc = "priming", ![l].pi = 1]
                    /\ UNCHANGED <<stopRef, inFlightRef, delayMsRef, hist>>
    /\ UNCHANGED <<sheet, held, mountLoad, seenRef, announced, primedHeld>>
    /\ UNCHANGED <<serverVars, libVars>>

\* The pairs primeSeen or pollOnce reads from a response for wallet w.
KeysOf(w, trades) == {<<w, keyForTrade(t)>> : t \in trades}

\* A fetch of primeSeen settles: the trades of the response are marked, a
\* failure is swallowed; then the next wallet's fetch, or loop().
PrimeSettled(l, o) ==
    /\ lp[l].pc = "priming"
    /\ LET L == lp[l]
           w == L.list[L.pi]
           res == tradesGET(w, o.status, held[w])
       IN  /\ seenRef' = IF o.net THEN seenRef \cup KeysOf(w, res.trades)
                          ELSE seenRef
           /\ primedHeld' = primedHeld \cup KeysOf(w, held[w])
           /\ IF L.pi < Len(L.list)
              THEN /\ lp' = [lp EXCEPT ![l].pi = @ + 1]
                   /\ UNCHANGED <<stopRef, inFlightRef, delayMsRef, hist>>
              ELSE loop(l, [L EXCEPT !.pi = 0])
    /\ UNCHANGED <<sheet, held, mountLoad, pageWallets, running, announced>>
    /\ UNCHANGED <<serverVars, libVars>>

\* The trades of a response that pollOnce announces for wallet w.
Announce(w, res, seen) ==
    {t \in res.trades :
        /\ shouldTrackSide(t.side)
        /\ passesMinUsdFilter(t)
        /\ <<w, keyForTrade(t)>> \notin seen}

\* The throttled flag after the fetch with outcome o and response res.
Throttled(flag, o, res) ==
    \/ flag
    \/ ~o.net
    \/ ~IsOk(res.status) /\ res.status \in {429, 403}
    \/ IsOk(res.status) /\ res.error

\* One fetch of the running window settles and its callback runs; with the
\* last of the window, Promise.all resolves: the next window's fetches are
\* issued or, after the last window, the flag is released, pollOnce returns
\* and loop() updates the delay and starts its sleep.
FetchSettled(l, k, o) ==
    /\ lp[l].pc = "polling"
    /\ k \in lp[l].out
    /\ LET L == lp[l]
           H == hist[l]
           w == L.list[k]
           res == tradesGET(w, o.status, held[w])
           new == IF o.net /\ IsOk(res.status) /\ ~res.error
                  THEN Announce(w, res, seenRef) ELSE {}
           th == Throttled(L.throttled, o, res)
           up == H.upstream \/ (o.net /\ o.status \in {429, 403})
           out2 == L.out \ {k}
           d == NextDelay(delayMsRef, th)
       IN  /\ seenRef' = seenRef \cup KeysOf(w, new)
           /\ announced' = [q \in DOMAIN announced |->
                               IF q \in KeysOf(w, new)
                               THEN announced[q] + 1 ELSE announced[q]]
           /\ IF out2 # {}
              THEN /\ lp' = [lp EXCEPT ![l].out = out2, ![l].throttled = th]
                   /\ hist' = [hist EXCEPT ![l].upstream = up,
                                           ![l].settled = @ \cup {k}]
                   /\ UNCHANGED <<inFlightRef, delayMsRef>>
              ELSE IF L.i + CONCURRENCY <= Len(L.list)
              THEN /\ lp' = [lp EXCEPT ![l].i = @ + CONCURRENCY,
                                       ![l].out = Window(L.list, L.i + CONCURRENCY),
                                       ![l].throttled = th]
                   /\ hist' = [hist EXCEPT ![l].upstream = up,
                                           ![l].settled = @ \cup {k}]
                   /\ UNCHANGED <<inFlightRef, delayMsRef>>
              ELSE /\ inFlightRef' = FALSE
                   /\ delayMsRef' = d
                   /\ lp' = [lp EXCEPT ![l].pc = "sleeping", ![l].i = 0,
                                       ![l].out = {}, ![l].throttled = th,
                                       ![l].sleepMs = d]
                   /\ hist' = [hist EXCEPT ![l].upstream = up,
                                           ![l].settled = @ \cup {k},
                                           ![l].last =
                                               [reported |-> th, upstream |-> up,
                                                ran |-> TRUE]]
    /\ UNCHANGED <<sheet, held, mountLoad, pageWallets, running, stopRef,
                   primedHeld>>
    /\ UNCHANGED <<serverVars, libVars>>

\* The pollOnce calls made so far in the session.
PollsMade == lp[1].polls + lp[2].polls

\* The timer of the sleep fires: the while check, then either the end of
\* loop() or the next pollOnce.
Wake(l, cap) ==
    /\ lp[l].pc = "sleeping"
    /\ PollsMade < cap
    /\ IF stopRef
       THEN /\ lp' = [lp EXCEPT ![l].pc = "done"]
            /\ UNCHANGED <<inFlightRef, delayMsRef, hist>>
       ELSE LET r == LoopStep(lp[l],
                              [hist[l] EXCEPT !.polledAfterStop = @ \/ hist[l].stopSeen],
                              inFlightRef, delayMsRef)
            IN  /\ lp' = [lp EXCEPT ![l] = r.L]
                /\ hist' = [hist EXCEPT ![l] = r.H]
                /\ inFlightRef' = r.inFlight
                /\ delayMsRef' = r.delay
    /\ UNCHANGED <<sheet, held, mountLoad, pageWallets, running, stopRef,
                   seenRef, announced, primedHeld>>
    /\ UNCHANGED <<serverVars, libVars>>

\* stop(): the Stop button is rendered while running is true.
stop ==
    /\ running
    /\ running' = FALSE
    /\ stopRef' = TRUE
    /\ hist' = [l \in Starts |->
                   IF lp[l].pc \in {"polling", "sleeping"}
                   THEN [hist[l] EXCEPT !.stopSeen = TRUE] ELSE hist[l]]
    /\ UNCHANGED <<sheet, held, mountLoad, pageWallets, inFlightRef,
                   delayMsRef, seenRef, lp, announced, primedHeld>>
    /\ UNCHANGED <<serverVars, libVars>>

\* The trade source records a trade of wallet w.
UpstreamTrade(w, t) ==
    /\ t \notin held[w]
    /\ held' = [held EXCEPT ![w] = @ \cup {t}]
    /\ UNCHANGED <<sheet, mountLoad, pageWallets, running, stopRef,
                   inFlightRef, delayMsRef, seenRef, lp, announced,
                   primedHeld, hist>>
    /\ UNCHANGED <<serverVars, libVars>>

\* The windows' side: one call of start() on sheets of every length, fetches
\* that succeed or fail in transport, a trade source that holds nothing.
WindowNext ==
    \/ \E ok \in BOOLEAN : MountLoaded(ok)
    \/ start(1)
    \/ \E outcome \in {"ok", "error", "throw"} : WalletsLoaded(1, outcome)
    \/ \E o \in PlainOutcomes : PrimeSettled(1, o)
    \/ \E k \in DOMAIN PagePool, o \in PlainOutcomes : FetchSettled(1, k, o)
    \/ Wake(1, MaxWindowPolls)
    \/ stop

WindowInit == ServerInit /\ PageInit(LongSheets, {{}}) /\ LibInit

WindowSpec == WindowInit /\ [][WindowNext]_vars

\* The session's side: one wallet, every answer of the trade source, a trade
\* that appears while the session runs.
PageNext ==
    \/ \E ok \in BOOLEAN : MountLoaded(ok)
    \/ \E l \in Starts : start(l)
    \/ \E l \in Starts, outcome \in {"ok", "error", "throw"} : WalletsLoaded(l, outcome)
    \/ \E l \in Starts, o \in FetchOutcomes : PrimeSettled(l, o)
    \/ \E l \in Starts, o \in FetchOutcomes : FetchSettled(l, 1, o)
    \/ \E l \in Starts : Wake(l, MaxPolls)
    \/ stop
    \/ UpstreamTrade("0xa", NewTrade)

PageSessionInit ==
    ServerInit /\ PageInit(ShortSheets, {{OldTrade, SmallTrade}}) /\ LibInit

PageSpec == PageSessionInit /\ [][PageNext]_vars

(***************************************************************************)
(* src/lib/polymarket.ts: normalizeTimestamp called on its own             *)
(***************************************************************************)
\* Raw timestamps around zero, around the threshold, and the seconds and
\* milliseconds of one instant (1700000000 s).
RawInputs ==
    (-5..20) \cup ((MsThreshold - 50)..(MsThreshold + 50)) \cup {1700, 1700000}

normalizeCall(ts) ==
    /\ tsLog' = [raw |-> ts, ms |-> normalizeTimestamp(ts)]
    /\ UNCHANGED <<serverVars, pageVars, csvLog, fx, tr>>

NormalizeNext == \E ts \in RawInputs : normalizeCall(ts)

NormalizeSpec == Init /\ [][NormalizeNext]_vars

(***************************************************************************)
(* src/lib/sheets.ts: fetchTrackedWallets called on its own                *)
(***************************************************************************)
\* The sheet is modelled from its lines on; a line is the list of cells
\* parseCsvLine makes of it (trimmed, quotes stripped), and <<>> stands for a
\* line of blanks only.
MaxLines == 2

\* The cells of the sheets tried: labels, a trader name that contains
\* "name", an address, the empty cell.
CsvCells == {"", "Name", "Wallet", "Address", "Nameless", "0xa"}

\* cell.toLowerCase().includes(word), by table over CsvCells.
includes(cell, word) ==
    CASE word = "name"    -> cell \in {"Name", "Nameless"}
      [] word = "wallet"  -> cell = "Wallet"
      [] word = "address" -> cell = "Address"

CsvLines ==
    {<<>>} \cup {<<a>> : a \in CsvCells} \cup {<<a, b>> : a, b \in CsvCells}

CsvTexts ==
    UNION {[1..n -> CsvLines] : n \in 0..MaxLines}

\* row[i] || ""
Cell(row, i) == IF i <= Len(row) THEN row[i] ELSE ""

detectHeader(row) ==
    \/ includes(Cell(row, 1), "name")
    \/ includes(Cell(row, 2), "wallet")
    \/ includes(Cell(row, 2), "address")

\* The rows after the blank lines are dropped.
CsvRowsOf(lines) == SelectSeq(lines, LAMBDA l : l # <<>>)

\* The entries made of data rows: both cells non-empty, in file order.
EntriesOf(dataRows) ==
    LET kept == SelectSeq(dataRows,
                          LAMBDA r : Cell(r, 1) # "" /\ Cell(r, 2) # "")
    IN  [i \in DOMAIN kept |->
            [trader |-> Cell(kept[i], 1), wallet |-> Cell(kept[i], 2)]]

\* What fetchTrackedWallets resolves with for an ok response of these lines.
fetchTrackedWallets(lines) ==
    LET rows == CsvRowsOf(lines)
    IN  IF rows = <<>> THEN <<>>
        ELSE EntriesOf(IF detectHeader(rows[1]) THEN Tail(rows) ELSE rows)

sheetCall ==
    /\ ~csvLog.called
    /\ csvLog' = [csvLog EXCEPT !.called = TRUE,
                                !.wallets = fetchTrackedWallets(csvLog.lines)]
    /\ UNCHANGED <<serverVars, pageVars, tsLog, fx, tr>>

SheetNext == sheetCall

\* The sheet's text is drawn at the start, then the call is made.
SheetInit ==
    /\ ServerInit /\ PageInit({<<>>}, {{}}) /\ tsLog = NoCall
    /\ FixedInit({<<>>}) /\ tr = NoRequest
    /\ \E lines \in CsvTexts : csvLog = SheetCallOf(lines)

SheetSpec == SheetInit /\ [][SheetNext]_vars

(***************************************************************************)
(* src/unnamed/part_000: the session of the fixed-interval page            *)
(***************************************************************************)
\* The loadWallets() of the mount effect resolves.
fixedMountLoaded(ok) ==
    /\ fx.mountLoad
    /\ fx' = [fx EXCEPT !.mountLoad = FALSE,
                        !.wallets = IF ok THEN fx.sheet ELSE @]
    /\ UNCHANGED <<serverVars, pageVars, tsLog, csvLog, tr>>

\* window.setInterval at the end of start(): the timer of call l is created
\* and timerRef holds it.
SetInterval(f, l) ==
    [f EXCEPT !.timers = @ \cup {l}, !.timerRef = l, !.call[l].pc = "set"]

\* start() up to await loadWallets(): the handler of the render it was
\* clicked in, whose wallets primeSeen and pollOnce of this call read.
fixedStart(l) ==
    /\ ~fx.running
    /\ fx.call[l].pc = "off"
    /\ \A k \in Starts : k < l => fx.call[k].pc # "off"
    /\ fx' = [fx EXCEPT
                 !.call[l] = [pc |-> "loading",
                              list |-> [k \in DOMAIN fx.wallets |->
                                           toLowerCase(fx.wallets[k].wallet)],
                              pi |-> 0],
                 !.afterStop = FALSE]
    /\ UNCHANGED <<serverVars, pageVars, tsLog, csvLog, tr>>

\* await loadWallets() of start() settles: setRunning(true) and primeSeen()
\* up to its first fetch, or, with no wallets, through to setInterval.
fixedWalletsLoaded(l, outcome) ==
    /\ fx.call[l].pc = "loading"
    /\ IF outcome = "throw"
       THEN fx' = [fx EXCEPT !.call[l].pc = "failed"]
       ELSE LET f == [fx EXCEPT !.wallets = IF outcome = "ok" THEN fx.sheet ELSE @,
                                !.running = TRUE]
            IN  fx' = IF fx.call[l].list = <<>>
                      THEN SetInterval(f, l)
                      ELSE [f EXCEPT !.call[l].pc = "priming", !.call[l].pi = 1]
    /\ UNCHANGED <<serverVars, pageVars, tsLog, csvLog, tr>>

\* A fetch of primeSeen settles: the BUY trades of the response are marked,
\* a failure is swallowed; then the next wallet's fetch, or setInterval.
fixedPrimeSettled(l, o) ==
    /\ fx.call[l].pc = "priming"
    /\ LET C == fx.call[l]
           w == C.list[C.pi]
           res == tradesGET(w, o.status, FixedHeld)
           f == [fx EXCEPT !.seen = IF o.net THEN @ \cup FixedKeysOf(w, res.trades)
                                    ELSE @]
       IN  fx' = IF C.pi < Len(C.list)
                 THEN [f EXCEPT !.call[l].pi = @ + 1]
                 ELSE SetInterval(f, l)
    /\ UNCHANGED <<serverVars, pageVars, tsLog, csvLog, tr>>

\* stop(): the Stop button is rendered while running is true; the timer
\* timerRef holds, if any, is cleared.
fixedStop ==
    /\ fx.running
    /\ fx' = [fx EXCEPT !.running = FALSE,
                        !.timers = IF fx.timerRef # 0 THEN @ \ {fx.timerRef} ELSE @,
                        !.timerRef = 0,
                        !.afterStop = TRUE]
    /\ UNCHANGED <<serverVars, pageVars, tsLog, csvLog, tr>>

\* The interval timer of call t fires: pollOnce() up to its first await.
fixedTick(t) ==
    /\ t \in fx.timers
    /\ fx.ticks < MaxTicks
    /\ LET list == fx.call[t].list
           c == fx.ticks + 1
       IN  fx' = [fx EXCEPT
                    !.ticks = c,
                    !.begunAfterStop = @ \/ fx.afterStop,
                    !.cyc[c] = IF list = <<>>
                               THEN [NoFixedCycle EXCEPT !.pc = "done"]
                               ELSE [pc |-> "polling", list |-> list, i |-> 1,
                                     out |-> FixedWindow(list, 1)]]
    /\ UNCHANGED <<serverVars, pageVars, tsLog, csvLog, tr>>

\* One fetch of a cycle's running batch settles and its callback runs; with
\* the last of the batch, Promise.all resolves: the next batch's fetches
\* are issued or pollOnce returns.
fixedFetchSettled(c, k, o) ==
    /\ fx.cyc[c].pc = "polling"
    /\ k \in fx.cyc[c].out
    /\ LET Y == fx.cyc[c]
           w == Y.list[k]
           res == tradesGET(w, o.status, FixedHeld)
           new == IF o.net /\ ~res.error
                  THEN FixedAnnounce(w, res.trades, fx.seen) ELSE {}
           keys == {<<w, fixedKeyForTrade(t)>> : t \in new}
           old == IF o.net /\ ~res.error
                  THEN FixedKeysOf(w, res.trades) \cap fx.seen ELSE {}
           out2 == Y.out \ {k}
       IN  fx' = [fx EXCEPT
                    !.seen = @ \cup keys,
                    !.announced = [q \in DOMAIN @ |->
                                      IF q \in keys THEN @[q] + 1 ELSE @[q]],
                    !.skipped = @ \cup old,
                    !.cyc[c] =
                        IF out2 # {} THEN [Y EXCEPT !.out = out2]
                        ELSE IF Y.i + FixedCeiling <= Len(Y.list)
                        THEN [Y EXCEPT !.i = @ + FixedCeiling,
                                       !.out = FixedWindow(Y.list,
                                                           Y.i + FixedCeiling)]
                        ELSE [NoFixedCycle EXCEPT !.pc = "done"]]
    /\ UNCHANGED <<serverVars, pageVars, tsLog, csvLog, tr>>

FixedNext ==
    \/ \E ok \in BOOLEAN : fixedMountLoaded(ok)
    \/ \E l \in Starts : fixedStart(l)
    \/ \E l \in Starts, outcome \in {"ok", "error", "throw"} :
          fixedWalletsLoaded(l, outcome)
    \/ \E l \in Starts, o \in PlainOutcomes : fixedPrimeSettled(l, o)
    \/ fixedStop
    \/ \E t \in Starts : fixedTick(t)
    \/ \E c \in 1..MaxTicks, k \in 1..3, o \in PlainOutcomes :
          fixedFetchSettled(c, k, o)

FixedSessionInit ==
    /\ ServerInit /\ PageInit({<<>>}, {{}})
    /\ tsLog = NoCall /\ csvLog = NoSheetCall /\ tr = NoRequest
    /\ FixedInit(FixedSheets)

FixedSpec == FixedSessionInit /\ [][FixedNext]_vars

(***************************************************************************)
(* src/app/api/trades/route.ts: GET called on its own                      *)
(***************************************************************************)
\* The response NextResponse.json makes of the route's result, or the
\* framework's answer to a handler that threw.
Responded(res) ==
    [status |-> res.status, error |-> res.error, trades |-> res.trades,
     thrown |-> FALSE]

HandlerThrew == [NoResponse EXCEPT !.status = 500, !.thrown = TRUE]

\* GET up to await fetch(url): a request without user is answered at once,
\* any other issues the fetch.
tradesRequest(user, limit) ==
    /\ tr.pc \in {"idle", "done"}
    /\ tr' = IF user = ""
             THEN [NoRequest EXCEPT
                      !.pc = "done",
                      !.response = Responded(tradesGET(user, 0, {}))]
             ELSE [NoRequest EXCEPT
                      !.pc = "awaiting",
                      !.user = user,
                      !.url = <<user, IF limit = NoParam THEN "10" ELSE limit>>]
    /\ UNCHANGED <<serverVars, pageVars, tsLog, csvLog, fx>>

\* The fetch settles and GET runs to its end: a rejected fetch and an ok
\* body that is no JSON make the handler throw.
tradesSettled(up) ==
    /\ tr.pc = "awaiting"
    /\ tr' = [tr EXCEPT
                 !.pc = "done",
                 !.up = up,
                 !.response =
                     IF up.kind = "reject" \/ (IsOk(up.status) /\ ~up.json)
                     THEN HandlerThrew
                     ELSE Responded(tradesGET(tr.user, up.status, up.data))]
    /\ UNCHANGED <<serverVars, pageVars, tsLog, csvLog, fx>>

TradesNext ==
    \/ \E user \in TradesUsers, limit \in TradesLimits : tradesRequest(user, limit)
    \/ \E up \in TradesAnswers : tradesSettled(up)

TradesSpec == Init /\ [][TradesNext]_vars

(***************************************************************************)
(* Both pages with a sheet that spells one wallet twice                    *)
(***************************************************************************)
TwinSheet == <<PageRow("0xA"), PageRow("0xa")>>

\* The session is a session of one of the two pages: the page that has the
\* sheet; the other page is never opened.
ClientsInit ==
    /\ ServerInit
    /\ tsLog = NoCall /\ csvLog = NoSheetCall /\ tr = NoRequest
    /\ \/ PageInit({TwinSheet}, {{OldTrade}}) /\ FixedInit({<<>>})
       \/ PageInit({<<>>}, {{}}) /\ FixedInit({TwinSheet})

ClientsNext ==
    \/ /\ sheet # <<>>
       /\ \/ \E ok \in BOOLEAN : MountLoaded(ok)
          \/ \E l \in Starts : start(l)
          \/ \E l \in Starts, outcome \in {"ok", "error", "throw"} :
                WalletsLoaded(l, outcome)
          \/ \E l \in Starts, o \in PlainOutcomes : PrimeSettled(l, o)
          \/ \E l \in Starts, k \in 1..2, o \in PlainOutcomes :
                FetchSettled(l, k, o)
          \/ \E l \in Starts : Wake(l, MaxPolls)
          \/ stop
    \/ /\ fx.sheet # <<>>
       /\ FixedNext

ClientsSpec == ClientsInit /\ [][ClientsNext]_vars

(***************************************************************************)
(* Claims.                                                                 *)
(***************************************************************************)
FramesOfType(v, type) == {i \in DOMAIN written[v] : written[v][i].type = type}

\* The events of the last admit pass, in the order they were pushed.
RECURSIVE AdmittedSeq(_)
AdmittedSeq(log) ==
    IF log = <<>> THEN <<>> ELSE Head(log).admitted \o AdmittedSeq(Tail(log))

\* C1 (as stated): no id is admitted in two consecutive cycles.
C1_NoIdAdmittedTwice ==
    \A x \in prevPass.admitted : \A y \in AdmittedIn(admitLog) : x[2] # y[2]

\* C1 (amended): a trade admitted in one cycle for a wallet-list address and
\* returned again for that address with the same id and timestamp is not
\* admitted in the next cycle; an id is admitted in two consecutive cycles
\* only if lastSentIds was truncated in one of the two.
C1_NotAdmittedAgainUnlessTruncated ==
    \A x \in prevPass.admitted : \A y \in AdmittedIn(admitLog) :
        /\ x # y
        /\ x[2] = y[2] => prevPass.truncated \/ Truncated(admitLog)

\* C1 witness: a trade admitted one cycle earlier was fetched again for the
\* same address, with its id and timestamp, and the pass admitted nothing.
C1_Witness ==
    \E i \in DOMAIN admitLog : \E x \in prevPass.admitted :
        /\ x[1] = admitLog[i].wallet
        /\ <<x[2], x[3]>> \in admitLog[i].fetched
        /\ AdmittedIn(admitLog) = {}

\* C2 (as stated): no events frame is written to a viewer before a complete
\* fetch-and-admit pass that wrote nothing has finished.
C2_PrimedBeforeEvents ==
    (\E v \in Viewers : FramesOfType(v, "events") # {}) => quietPass

\* The rows of the last pass that belong to wallet address a.
RowsOf(a) == {i \in DOMAIN admitLog : admitLog[i].wallet = a}

\* The watermark of address a when the last pass began.
SeenAtStart(a) == admitLog[CHOOSE i \in RowsOf(a) : \A j \in RowsOf(a) : i <= j].seenBefore

\* C3: a cycle in which none of the trades fetched for a wallet is newer than
\* the wallet's watermark admits nothing for it, leaves its watermark as it
\* was and, in the wallet's iterations, leaves lastSentIds as it was.
C3_NoNewTradesNoChange ==
    \A a \in Addrs :
        (/\ RowsOf(a) # {}
         /\ \A i \in RowsOf(a) : \A f \in admitLog[i].fetched : f[2] <= SeenAtStart(a))
        => /\ LastSeen(lastSeenByWallet, a) = SeenAtStart(a)
           /\ (a \in DOMAIN lastSeenByWallet <=> SeenAtStart(a) # 0)
           /\ \A i \in RowsOf(a) : /\ admitLog[i].admitted = <<>>
                                   /\ admitLog[i].seenAfter = SeenAtStart(a)
                                   /\ admitLog[i].sentSame

\* C3 witness: trades were fetched for a wallet with a watermark, none newer
\* than it.
C3_Witness ==
    \E a \in Addrs :
        /\ RowsOf(a) # {}
        /\ SeenAtStart(a) > 0
        /\ \E i \in RowsOf(a) : admitLog[i].fetched # {}
        /\ \A i \in RowsOf(a) : \A f \in admitLog[i].fetched : f[2] <= SeenAtStart(a)

\* C4: the while loop of pollLoop is entered at most once, however many
\* viewers attach.
C4_SingleLoop ==
    /\ loops <= 1
    /\ started <=> loops = 1

\* C4 witness: two GET calls, one loop.
C4_Witness ==
    /\ \A v \in Viewers : conn[v] # "none"
    /\ loops = 1

\* C5 (as stated): no viewer whose request has aborted stays registered.
C5_AbortedNotRegistered ==
    \A v \in Viewers :
        conn[v] \in {"helloAborted", "stuck", "closed"} => v \notin clients

LastFrame(v) == written[v][Len(written[v])]

\* C6: the fan-out issues a write on every viewer registered when it begins,
\* a rejected write leaves the other writes pending or settled as they were,
\* and the cycle goes from the fan-out to its sleep and the next cycle.
C6_FanoutAllSettled ==
    [][/\ (pc = "trades" /\ pc' # "trades"
             /\ AdmittedIn(admitLog') # {} /\ clients # {})
            => \A v \in clients :
                  /\ written'[v] = Append(written[v], LastFrame(v)')
                  /\ LastFrame(v)'.type = "events"
                  /\ v \in pending'
       /\ (pc = "fanout" /\ rejected' # rejected)
            => /\ pending' = pending \ (rejected' \ rejected)
               /\ written' = written
               /\ pc' = IF pending' = {} THEN "sleep" ELSE "fanout"
       /\ pc = "fanout" => pc' \in {"fanout", "sleep"}
       /\ pc = "sleep" => pc' \in {"sleep", "wallets"}]_vars

\* C6 witness: a write of the last fan-out rejected, another viewer was
\* written the frame, and the loop has begun the next cycle.
C6_Witness ==
    /\ pc = "wallets"
    /\ rejected # {}
    /\ \E u \in Viewers \ rejected :
          /\ Len(written[u]) >= 2
          /\ LastFrame(u).type = "events"
          /\ \E v \in rejected : LastFrame(v) = LastFrame(u)

C8_HelloFirst ==
    \A v \in Viewers :
        IF conn[v] = "none" THEN written[v] = <<>>
        ELSE /\ Len(written[v]) >= 1
             /\ FramesOfType(v, "hello") = {1}
             /\ FramesOfType(v, "events") = 2..Len(written[v])

\* C8 witness: a fan-out wrote to a viewer whose hello write was still
\* pending.
C8_Witness ==
    \E v \in Viewers : conn[v] = "hello" /\ FramesOfType(v, "events") # {}

IsSortedByTimestamp(events) ==
    \A i, j \in DOMAIN events :
        i < j => events[i].timestampMs <= events[j].timestampMs

\* C9: the events of every events frame are in non-decreasing order of
\* timestampMs.
C9_FramesSorted ==
    \A v \in Viewers : \A i \in FramesOfType(v, "events") :
        IsSortedByTimestamp(written[v][i].events)

\* C9 witness: a frame of two wallets' events that were admitted newest
\* first.
C9_Witness ==
    /\ pc = "fanout"
    /\ Len(admitLog) = 2
    /\ ~IsSortedByTimestamp(AdmittedSeq(admitLog))
    /\ \E v \in clients : LastFrame(v).type = "events"

\* C10: the loop, once started, never leaves its cycle: a cycle that throws
\* changes neither the store nor the registry, writes no frame and goes to
\* the sleep, and the sleep is followed by the next cycle.
C10_LoopSurvivesThrow ==
    /\ [][/\ started => started' /\ pc' \in {"wallets", "trades", "fanout", "sleep"}
          /\ (pc = "wallets" /\ pc' \notin {"wallets", "trades"})
               => /\ pc' = "sleep"
                  /\ UNCHANGED <<lastSeenByWallet, lastSentIds, clients, written>>
          /\ pc = "sleep" => pc' \in {"sleep", "wallets"}]_vars
    /\ (pc = "sleep" /\ cycle < MaxCycles) ~> (pc = "wallets")

\* C10 witness: the cycle after one that threw has begun.
C10_Witness ==
    /\ threw
    /\ pc = "wallets"
    /\ cycle >= 2

\* The timer of the sleep fires.
FairSpec == Spec /\ WF_vars(SleepDone)

\* What the admit pass of the running cycle makes of the answers resp.
PassWith(resp) ==
    AdmitAll(mapWithConcurrency(wallets, resp),
             [seen |-> lastSeenByWallet, sent |-> lastSentIds,
              events |-> <<>>, log |-> <<>>])

\* The answers resp with every failed fetch replaced by an empty list.
AsEmpty(resp) ==
    [i \in DOMAIN resp |->
        IF resp[i].ok THEN resp[i] ELSE [ok |-> TRUE, data |-> <<>>]]

\* C11: a wallet row whose trade fetch failed contributes no events and its
\* iteration leaves the watermark and lastSentIds alone; an address whose
\* fetches all failed keeps its watermark; and the pass ends in the state it
\* would end in had every failed fetch returned an empty list.
C11_FailedFetchIsEmpty ==
    [][(pc = "trades" /\ pc' # "trades") =>
          /\ \A i \in failedFetch' :
                /\ admitLog'[i].fetched = {}
                /\ admitLog'[i].admitted = <<>>
                /\ admitLog'[i].seenAfter = admitLog'[i].seenBefore
                /\ admitLog'[i].sentSame
          /\ \A a \in Addrs :
                (/\ \E i \in DOMAIN wallets : wallets[i].wallet = a
                 /\ \A i \in DOMAIN wallets :
                        wallets[i].wallet = a => i \in failedFetch')
                => /\ LastSeen(lastSeenByWallet', a) = LastSeen(lastSeenByWallet, a)
                   /\ (a \in DOMAIN lastSeenByWallet' <=> a \in DOMAIN lastSeenByWallet)
          /\ failedFetch' # {} =>
                \A resp \in Answers(wallets) :
                    {i \in DOMAIN resp : ~resp[i].ok} = failedFetch' =>
                        LET pass == PassWith(resp)
                        IN  (/\ pass.log = admitLog'
                             /\ pass.seen = lastSeenByWallet'
                             /\ pass.sent = lastSentIds')
                            => PassWith(AsEmpty(resp)) = pass]_vars

\* C11 witness: in the last pass one wallet's fetch failed and another
\* wallet's trade was admitted.
C11_Witness ==
    /\ failedFetch # {}
    /\ \E i \in DOMAIN admitLog :
          /\ i \notin failedFetch
          /\ admitLog[i].admitted # <<>>

\* C12: lastSentIds never holds more than SentCap + 1 ids, not even between
\* an add and its size check, and never more than SentCap ids once the size
\* check has run; it holds no id twice.
C12_SentIdsWithinCap ==
    /\ Len(lastSentIds) <= SentCap
    /\ Cardinality(Range(lastSentIds)) = Len(lastSentIds)
    /\ \A i \in DOMAIN admitLog : admitLog[i].peak <= SentCap + 1

\* C12 witness: an add of the last pass took lastSentIds over the cap.
C12_Witness ==
    \E i \in DOMAIN admitLog :
        /\ admitLog[i].truncated
        /\ admitLog[i].peak = SentCap + 1

\* C13: a cycle begins only when every write of the fan-out before it has
\* settled, and an events frame is only ever appended to what a viewer was
\* written, by a cycle that found no write of an earlier fan-out unsettled.
C13_CyclesSequential ==
    /\ [](pc \in {"idle", "wallets", "trades", "sleep"} => pending = {})
    /\ [][/\ (pc # "wallets" /\ pc' = "wallets") => pending = {} /\ pending' = {}
          /\ \A v \in Viewers :
                (/\ written'[v] # written[v]
                 /\ LastFrame(v)'.type = "events")
                => /\ written'[v] = Append(written[v], LastFrame(v)')
                   /\ pc = "trades"
                   /\ pending = {}]_vars

\* C13 witness: the second cycle's frame was written after the first
\* cycle's.
C13_Witness ==
    /\ cycle = 2
    /\ pc = "fanout"
    /\ \E v \in pending : Cardinality(FramesOfType(v, "events")) = 2

\* The window of the list that index k falls in, counted from 0.
WindowIndex(k) == (k - 1) \div CONCURRENCY

\* The fetches a running pollOnce has issued: settled or outstanding.
Issued(l) == lp[l].out \cup hist[l].settled

\* C14: pollOnce works through the list in windows of CONCURRENCY wallets:
\* the fetches of a window are issued together, none of a later window is
\* issued before every fetch of the windows before it has settled, and never
\* more than CONCURRENCY fetches of pollOnce are outstanding.
C14_WindowsInOrder ==
    /\ Cardinality(lp[1].out) + Cardinality(lp[2].out) <= CONCURRENCY
    /\ \A l \in Starts :
          IF lp[l].pc # "polling" THEN lp[l].out = {}
          ELSE /\ lp[l].out # {}
               /\ lp[l].out \cap hist[l].settled = {}
               /\ Issued(l) \subseteq DOMAIN lp[l].list
               /\ \A j \in Issued(l) : \A m \in DOMAIN lp[l].list :
                     /\ WindowIndex(m) < WindowIndex(j) => m \in hist[l].settled
                     /\ WindowIndex(m) = WindowIndex(j) => m \in Issued(l)

\* C14 witness: of a list of two full windows and one wallet, both full
\* windows have settled and the fetch of the third window is outstanding.
C14_Witness ==
    /\ Len(lp[1].list) = 2 * CONCURRENCY + 1
    /\ lp[1].pc = "polling"
    /\ lp[1].out = {2 * CONCURRENCY + 1}
    /\ hist[1].settled = 1..(2 * CONCURRENCY)

\* A pollOnce call of loop l returns in this step and the loop starts its
\* sleep.
CycleEnds(l) == lp'[l].pc = "sleeping" /\ lp'[l] # lp[l]

\* C15: when a cycle ends the delay becomes min(delay * 1.5, 20000 ms) if
\* the cycle reported throttled and max(delay * 0.9, 1400 ms) if not, the
\* loop sleeps that delay, and nothing else changes the delay.
C15_AdaptiveDelay ==
    [][/\ \A l \in Starts :
             CycleEnds(l) =>
                /\ delayMsRef' =
                       IF hist'[l].last.reported
                       THEN IF 3 * delayMsRef >= 2 * MaxDelay
                            THEN MaxDelay ELSE (15 * delayMsRef) \div 10
                       ELSE IF 9 * delayMsRef <= 10 * MinDelay
                            THEN MinDelay ELSE (delayMsRef \div 10) * 9
                                               + ((delayMsRef % 10) * 9) \div 10
                /\ lp'[l].sleepMs = delayMsRef'
       /\ delayMsRef' # delayMsRef => \E l \in Starts : CycleEnds(l)]_vars

\* C15 witness: a throttled cycle has taken the delay to its ceiling.
C15_Witness ==
    /\ lp[1].pc = "sleeping"
    /\ hist[1].last.reported
    /\ delayMsRef = MaxDelay
    /\ lp[1].sleepMs = MaxDelay

\* C16 (as stated): a cycle in which the trade source answered a fetch with
\* 429 or 403 reports throttled.
C16_UpstreamThrottleReported ==
    \A l \in Starts :
        (hist[l].last.ran /\ hist[l].last.upstream) => hist[l].last.reported

\* C17: at most one pollOnce is in its fetch fan-out, and the in-flight flag
\* is set exactly while one is.
C17_OneFanout ==
    /\ Cardinality({l \in Starts : lp[l].pc = "polling"}) <= 1
    /\ inFlightRef <=> \E l \in Starts : lp[l].pc = "polling"

\* C17 witness: while one loop's fan-out is outstanding, the pollOnce of a
\* second loop has returned at the guard.
C17_Witness ==
    \E l, m \in Starts :
        /\ lp[l].pc = "polling"
        /\ lp[m].pc = "sleeping"
        /\ lp[m].list # <<>>
        /\ ~hist[m].last.ran

\* C18 (as stated): a loop that stop() was called on starts no poll cycle at
\* a later wake-up.
C18_StoppedLoopEnds ==
    \A l \in Starts : ~hist[l].polledAfterStop

\* C19 (as stated): no trade the source held for a wallet when primeSeen
\* fetched it is announced.
C19_PrimedNeverAnnounced ==
    \A q \in primedHeld : announced[q] = 0

\* C20 (as stated): a raw timestamp at or above the threshold is kept, one
\* below it is multiplied by 1000.
C20_NormalizeAtOrAbove ==
    tsLog.ms = IF tsLog.raw >= MsThreshold THEN tsLog.raw ELSE tsLog.raw * 1000

\* C20 (amended): a raw timestamp above the threshold is kept, one at or
\* below it is multiplied by 1000.
C20_NormalizeAbove ==
    /\ tsLog.ms = IF tsLog.raw > MsThreshold THEN tsLog.raw ELSE tsLog.raw * 1000
    /\ tsLog.raw = 1700 => tsLog.ms = 1700000
    /\ tsLog.raw = 1700000 => tsLog.ms = 1700000

\* C20 witness: the timestamp just above the threshold was normalized.
C20_Witness ==
    /\ tsLog.raw = MsThreshold + 1
    /\ tsLog.ms = tsLog.raw

\* The positions of a log row's fetched events that pass the timestamp filter.
FreshAt(r) == {k \in DOMAIN r.events : r.events[k][2] > r.seenBefore}

\* The members of s at the positions in I, in order.
RECURSIVE KeepAt(_, _)
KeepAt(s, I) ==
    IF s = <<>> THEN <<>>
    ELSE KeepAt(SubSeq(s, 1, Len(s) - 1), I)
            \o (IF Len(s) \in I THEN <<s[Len(s)]>> ELSE <<>>)

IdAndTime(evs) == [k \in DOMAIN evs |-> <<evs[k].id, evs[k].timestampMs>>]

RECURSIVE SizeAfter(_, _)
SizeAfter(n, k) ==
    IF k = 0 THEN n
    ELSE SizeAfter(IF n + 1 > SentCap THEN SentKeep ELSE n + 1, k - 1)

\* C23: whenever an insertion takes lastSentIds over the cap, the set is
\* replaced by exactly the SentKeep most recently inserted ids, the one just
\* inserted included; what a pass leaves is therefore a suffix of the ids in
\* insertion order (every discarded id was inserted before every retained
\* one), of the size the insertions give.
C23_TruncationKeepsNewest ==
    [][(pc = "trades" /\ pc' # "trades") =>
         LET adm      == AdmittedSeq(admitLog')
             inserted == lastSentIds \o [k \in DOMAIN adm |-> adm[k].id]
             size     == SizeAfter(Len(lastSentIds), Len(adm))
         IN  /\ Len(lastSentIds') = size
             /\ lastSentIds' =
                    SubSeq(inserted, Len(inserted) - size + 1, Len(inserted))
             /\ Truncated(admitLog') <=> lastSentIds' # inserted
             /\ (Len(lastSentIds) = SentCap /\ Len(adm) = 1)
                    => /\ Len(lastSentIds') = SentKeep
                       /\ lastSentIds'[SentKeep] = adm[1].id]_vars

\* C23 witness: the pass's last insertion took lastSentIds over the cap, and
\* the SentKeep ids kept end with the id it inserted.
C23_Witness ==
    /\ Truncated(admitLog)
    /\ Len(lastSentIds) = SentKeep
    /\ AdmittedSeq(admitLog) # <<>>
    /\ lastSentIds[SentKeep] = AdmittedSeq(admitLog)[Len(AdmittedSeq(admitLog))].id

\* C24: the watermark store identifies wallets case-insensitively: its keys
\* are lowercased addresses, so no two of them spell one address.
C24_KeysLowercased ==
    /\ \A k \in DOMAIN lastSeenByWallet : k = toLowerCase(k)
    /\ \A k1, k2 \in DOMAIN lastSeenByWallet :
          toLowerCase(k1) = toLowerCase(k2) => k1 = k2

\* Trades that differ in every field the id is made of.
IdTrades ==
    [proxyWallet : Addrs, transactionHash : {"", "h1", "h2"},
     timestamp : {1000, 2000}, side : {"BUY", "SELL"}, price : {1, 2},
     size : {1, 2}]

SameIdentity(t1, t2) ==
    /\ t1.proxyWallet = t2.proxyWallet
    /\ \/ t1.transactionHash # "" /\ t1.transactionHash = t2.transactionHash
       \/ /\ t1.transactionHash = "" /\ t2.transactionHash = ""
          /\ t1.timestamp = t2.timestamp /\ t1.side = t2.side
          /\ t1.price = t2.price /\ t1.size = t2.size

\* toTradeEvent gives two trades one id exactly when they have one identity.
IdsFollowIdentity ==
    \A t1, t2 \in IdTrades :
        toTradeEvent(t1, "T").id = toTradeEvent(t2, "U").id
            <=> SameIdentity(t1, t2)

\* C25 (as stated): toTradeEvent gives two trades the same id exactly when
\* they have the same proxyWallet and either the same non-empty hash or no
\* hash and the same timestamp, side, price and size; and of the trades that
\* share an id at most one is ever admitted.
C25_OneAdmittedPerId ==
    /\ IdsFollowIdentity
    /\ \A i, j \in DOMAIN AdmittedSeq(admitLog) :
          i # j => AdmittedSeq(admitLog)[i].id # AdmittedSeq(admitLog)[j].id
    /\ \A x \in prevPass.admitted : \A e \in Range(AdmittedSeq(admitLog)) :
          x[2] # e.id

\* C25 (amended): the ids are as stated; of the trades that share an id a
\* second one is admitted, in the same cycle or in the next, only if
\* lastSentIds was truncated in between.
C25_OneAdmittedPerIdUnlessTruncated ==
    /\ IdsFollowIdentity
    /\ \A i, j \in DOMAIN AdmittedSeq(admitLog) :
          (i # j /\ AdmittedSeq(admitLog)[i].id = AdmittedSeq(admitLog)[j].id)
            => Truncated(admitLog)
    /\ \A x \in prevPass.admitted : \A e \in Range(AdmittedSeq(admitLog)) :
          x[2] = e.id => prevPass.truncated \/ Truncated(admitLog)

\* C25 witness: one fetch returned two trades of one hash and different
\* timestamps, and the pass admitted one of them only.
C25_Witness ==
    \E i \in DOMAIN admitLog :
        /\ ~admitLog[i].truncated
        /\ Len(admitLog[i].admitted) = 1
        /\ \E f, g \in admitLog[i].fetched :
              /\ f[1] = g[1] /\ f[2] # g[2]
              /\ f[2] > admitLog[i].seenBefore /\ g[2] > admitLog[i].seenBefore
              /\ \A x \in prevPass.admitted : x[2] # f[1]

\* C26: a viewer is deregistered and its stream closed only by its own abort
\* listener: the step that does either is the abort of that viewer, which
\* touches no other viewer; a rejected fetchTrackedWallets, a failed trade
\* fetch and a rejected write leave the registry and every stream as they
\* were.
C26_ClosedOnlyOnOwnAbort ==
    [][/\ \A v \in Viewers :
            (\/ v \in clients /\ v \notin clients'
             \/ conn[v] # "closed" /\ conn'[v] = "closed")
              => /\ conn[v] = "open" /\ conn'[v] = "closed"
                 /\ clients' = clients \ {v}
                 /\ \A u \in Viewers \ {v} : conn'[u] = conn[u]
                 /\ UNCHANGED <<pc, pending, rejected, threw, failedFetch>>
       /\ (\/ pc = "wallets" /\ pc' = "sleep"
           \/ pc = "trades" /\ pc' # "trades" /\ failedFetch' # {}
           \/ rejected' # rejected)
              => clients' = clients /\ conn' = conn]_vars

\* C26 witness: a viewer whose write of the last fan-out rejected is still
\* registered and not closed after a later cycle's trade fetch failed.
C26_Witness ==
    /\ failedFetch # {}
    /\ \E v \in rejected : v \in clients /\ conn[v] # "closed"

\* How often e occurs in s.
Count(s, e) == Cardinality({k \in DOMAIN s : s[k] = e})

\* C27: in every cycle that admits at least one event while at least one
\* viewer is registered, each registered viewer is written exactly one
\* events frame, which holds every event the cycle admitted (each as often
\* as it was admitted) and nothing else, and no other viewer is written
\* anything; no events frame is ever written with an empty list.
C27_OneFrameWithAllEvents ==
    /\ [](\A v \in Viewers : \A i \in FramesOfType(v, "events") :
            written[v][i].events # <<>>)
    /\ [][(pc = "trades" /\ pc' # "trades") =>
            LET adm == AdmittedSeq(admitLog')
            IN  IF adm # <<>> /\ clients # {}
                THEN \A v \in Viewers :
                        IF v \in clients
                        THEN /\ Len(written'[v]) = Len(written[v]) + 1
                             /\ SubSeq(written'[v], 1, Len(written[v])) = written[v]
                             /\ written'[v][Len(written'[v])].type = "events"
                             /\ LET f == written'[v][Len(written'[v])].events
                                IN  /\ Len(f) = Len(adm)
                                    /\ \A e \in Range(adm) :
                                          Count(f, e) = Count(adm, e)
                        ELSE written'[v] = written[v]
                ELSE written' = written]_vars

\* C27 witness: the last cycle admitted two events, and the registered viewer
\* was written one frame that holds both.
C27_Witness ==
    /\ pc = "fanout"
    /\ Len(AdmittedSeq(admitLog)) = 2
    /\ \E v \in clients :
          /\ written[v][Len(written[v])].type = "events"
          /\ Len(written[v][Len(written[v])].events) = 2

\* A raw timestamp that is a number above zero.
GoodRaw(ts) == ts \notin {Missing, NaN} /\ ts > 0

\* C28: every trade fetchLatestTradesForWallet returns, and so every event
\* placed in a frame, has a timestamp above zero: the records whose raw
\* timestamp is missing, zero, negative or not a number are dropped, the
\* others are all kept.
C28_OnlyPositiveTimestamps ==
    /\ [](\A v \in Viewers : \A i \in FramesOfType(v, "events") :
            \A e \in Range(written[v][i].events) :
                e.timestampMs # NaN /\ e.timestampMs > 0)
    /\ [](\A i \in DOMAIN admitLog : \A f \in admitLog[i].fetched :
            f[2] # NaN /\ f[2] > 0)
    /\ [][(pc = "trades" /\ pc' # "trades") =>
            \A resp \in DropAnswers(wallets) :
                PassWith(resp).log = admitLog' =>
                    \A i \in DOMAIN resp :
                        LET data == resp[i].data
                            good == {k \in DOMAIN data :
                                        GoodRaw(data[k].timestamp)}
                        IN  /\ Len(admitLog'[i].events) = Cardinality(good)
                            /\ {f[2] : f \in admitLog'[i].fetched}
                                  = {data[k].timestamp * 1000 : k \in good}]_vars

\* C28 witness: the last fetch returned nothing although the trade source
\* answered, and an earlier fetch's trade was written to the viewer.
C28_Witness ==
    /\ pc = "sleep"
    /\ failedFetch = {}
    /\ ~threw
    /\ \E i \in DOMAIN admitLog : admitLog[i].events = <<>>
    /\ \E v \in Viewers : FramesOfType(v, "events") # {}

\* C29: no step lowers the watermark of any address or removes its entry; in
\* a pass, a wallet row whose fetch returned a trade newer than the watermark
\* writes a strictly greater value, and every other row writes nothing.
C29_WatermarkNeverDecreases ==
    [][/\ DOMAIN lastSeenByWallet \subseteq DOMAIN lastSeenByWallet'
       /\ \A k \in DOMAIN lastSeenByWallet :
             lastSeenByWallet'[k] >= lastSeenByWallet[k]
       /\ \A k \in DOMAIN lastSeenByWallet' \ DOMAIN lastSeenByWallet :
             lastSeenByWallet'[k] > 0
       /\ (pc = "trades" /\ pc' # "trades") =>
             \A i \in DOMAIN admitLog' :
                 IF FreshAt(admitLog'[i]) # {}
                 THEN admitLog'[i].seenAfter > admitLog'[i].seenBefore
                 ELSE admitLog'[i].seenAfter = admitLog'[i].seenBefore
       /\ ~(pc = "trades" /\ pc' # "trades")
             => lastSeenByWallet' = lastSeenByWallet]_vars

\* C29 witness: a wallet's watermark was raised from one trade's timestamp to
\* a later one's, while another wallet's entry stayed.
C29_Witness ==
    /\ \E i \in DOMAIN admitLog :
          /\ admitLog[i].seenBefore > 0
          /\ admitLog[i].seenAfter > admitLog[i].seenBefore
    /\ Cardinality(DOMAIN lastSeenByWallet) = 2

\* The timer fires and every write settles, except that a write to viewer v1
\* may stay unsettled for ever while v1 is connected (v1 stops reading
\* without disconnecting); once v1 has gone, its writes reject.
StallSpec ==
    /\ Spec
    /\ WF_vars(SleepDone)
    /\ \A v \in Viewers : WF_vars(HelloSettled(v))
    /\ \A v \in Viewers : WF_vars(WriteSettled(v, FALSE))
    /\ WF_vars(WriteSettled("v2", TRUE))

\* C30: although a write to one registered viewer never settles, the loop
\* completes the cycle: every fan-out is followed by the cycle's sleep (and
\* so by the next cycle).
C30_StalledWriteDoesNotBlock == (pc = "fanout") ~> (pc = "sleep")

\* C31: admission does not depend on the viewers: a pass whose fan-out finds
\* no viewer registered writes nothing, yet raises the watermark of every
\* wallet row that admitted something to at least the admitted timestamps
\* and leaves the last admitted id in lastSentIds; and no event admitted by
\* such a pass is in any frame written to any viewer.
C31_AdmittedWithoutViewers ==
    /\ [](\A v \in Viewers : \A i \in FramesOfType(v, "events") :
            \A e \in Range(written[v][i].events) : e \notin unsent)
    /\ [][(pc = "trades" /\ pc' # "trades" /\ clients = {}) =>
            /\ written' = written
            /\ pc' = "sleep"
            /\ Range(AdmittedSeq(admitLog')) \subseteq unsent'
            /\ \A i \in DOMAIN admitLog' :
                  \A e \in Range(admitLog'[i].admitted) :
                      /\ admitLog'[i].wallet \in DOMAIN lastSeenByWallet'
                      /\ lastSeenByWallet'[admitLog'[i].wallet] >= e.timestampMs
                      /\ e.timestampMs > LastSeen(lastSeenByWallet,
                                                  admitLog'[i].wallet)
            /\ AdmittedSeq(admitLog') # <<>>
                  => /\ lastSentIds' # lastSentIds
                     /\ AdmittedSeq(admitLog')[Len(AdmittedSeq(admitLog'))].id
                           \in Range(lastSentIds')]_vars

\* C31 witness: a trade admitted while no viewer was registered was fetched
\* again in a later cycle with a viewer registered, and nothing was admitted.
C31_Witness ==
    /\ clients # {}
    /\ pc = "sleep"
    /\ AdmittedSeq(admitLog) = <<>>
    /\ \E e \in unsent : \E i \in DOMAIN admitLog :
          <<e.id, e.timestampMs>> \in admitLog[i].fetched

\* The loops that are between their first while check and their return.
ActiveLoops == {l \in Starts : lp[l].pc \in {"polling", "sleeping"}}

\* C32 (as stated): at most one loop() is active in a session.
C32_OneLoopActive == Cardinality(ActiveLoops) <= 1

\* C33: in both pages, within one session no (wallet, trade key) pair is
\* announced more than once, whatever the order in which the fetches of a
\* window settle and however the cycles of the session interleave: the pair
\* is marked seen in the step that announces it.
C33_AnnouncedOnce ==
    /\ \A q \in DOMAIN announced :
          announced[q] <= 1 /\ (announced[q] = 1 => q \in seenRef)
    /\ \A q \in DOMAIN fx.announced :
          fx.announced[q] <= 1 /\ (fx.announced[q] = 1 => q \in fx.seen)

\* A pair was announced once and a later response for the same wallet,
\* spelled twice in the sheet, carried it again.
C33_Witness ==
    \E q \in fx.skipped : fx.announced[q] = 1

\* C34: the adaptive delay is 2500 ms until the first cycle and is never
\* below 1400 ms or above 20000 ms, and so is every sleep of the loop,
\* after any sequence of throttled and non-throttled cycles.
C34_DelayInRange ==
    /\ MinDelay <= delayMsRef /\ delayMsRef <= MaxDelay
    /\ PollsMade = 0 => delayMsRef = InitialDelay
    /\ \A l \in Starts :
          lp[l].pc = "sleeping" =>
              MinDelay <= lp[l].sleepMs /\ lp[l].sleepMs <= MaxDelay

\* C34 witness: cycles that were not throttled have taken the delay to its
\* floor, and the loop sleeps it.
C34_Witness ==
    /\ lp[1].pc = "sleeping"
    /\ hist[1].last.ran /\ ~hist[1].last.reported
    /\ delayMsRef = MinDelay
    /\ lp[1].sleepMs = MinDelay

\* C35 (as stated): in the fixed-interval page, from stop() until the next
\* click on Start no interval timer is active and no poll cycle begins.
C35_StoppedStaysStopped ==
    fx.afterStop => fx.timers = {} /\ ~fx.begunAfterStop

\* The cycles of the fixed-interval page whose fetches are outstanding.
FixedPolling == {c \in 1..MaxTicks : fx.cyc[c].pc = "polling"}

\* C36 (as stated): in the fixed-interval page no cycle begins while the
\* fetches of another are outstanding, and never more fetches than the
\* ceiling are outstanding.
C36_NoOverlappingCycles ==
    /\ Cardinality(FixedPolling) <= 1
    /\ \A c \in FixedPolling, d \in FixedPolling :
          c # d => Cardinality(fx.cyc[c].out) + Cardinality(fx.cyc[d].out)
                      <= FixedCeiling

\* C37: the filter a viewer connected with is written in its own hello
\* frame and nowhere else, and in a cycle that admits events while viewers
\* are registered every registered viewer is written the same events frame,
\* which is the sorted list of what the admit pass makes of the store and
\* the answers of the trade source, whatever the viewers' queries were.
C37_SamePayloadForAll ==
    /\ [](\A v \in Viewers : \A i \in DOMAIN written[v] :
            /\ written[v][i].type = "hello" =>
                  i = 1 /\ \E query \in Queries :
                              written[v][i] = HelloFrame(FilterOf(query))
            /\ written[v][i].type = "events" =>
                  DOMAIN written[v][i] = {"type", "events"})
    /\ [][(pc = "trades" /\ pc' # "trades"
             /\ AdmittedSeq(admitLog') # <<>> /\ clients # {}) =>
            \E resp \in FewAnswers(wallets) :
                \A v \in clients :
                    written'[v] =
                        Append(written[v],
                               EventsFrame(SortByTimestamp(PassWith(resp).events)))]_vars

\* C37 witness: two registered viewers, one that asked for big trades only
\* and one that sent no query, have been written the same events frame.
C37_Witness ==
    /\ pc = "fanout"
    /\ clients = Viewers
    /\ written["v1"][1] = HelloFrame(FilterOf([minUsd |-> 1000, filterBig |-> "1"]))
    /\ written["v2"][1] = HelloFrame(FilterOf(NoQuery))
    /\ LastFrame("v1").type = "events"
    /\ LastFrame("v1") = LastFrame("v2")

\* C38: the route answers a request without user with 400 and an error
\* payload and sends nothing to the trade source; it answers every status
\* of the trade source that is not a success with 500 and an error payload;
\* and a trades payload is returned only after the fetch resolved with a
\* success status, and is the body of that answer.
C38_TradesRouteAnswers ==
    tr.pc = "done" =>
        /\ tr.user = "" =>
              /\ tr.response.status = 400 /\ tr.response.error
              /\ tr.url = <<>> /\ tr.up = NoAnswer
        /\ (tr.up.kind = "status" /\ ~IsOk(tr.up.status)) =>
              /\ tr.response.status = 500 /\ tr.response.error
              /\ ~tr.response.thrown /\ tr.response.trades = {}
        /\ (~tr.response.error /\ ~tr.response.thrown) =>
              /\ tr.url # <<>>
              /\ tr.up.kind = "status" /\ IsOk(tr.up.status)
              /\ tr.response.trades = tr.up.data

\* C38 witness: the trade source answered a request for a wallet with 429
\* and a JSON body, and the route has answered.
C38_Witness ==
    /\ tr.pc = "done"
    /\ tr.user = "0xa"
    /\ tr.up.kind = "status" /\ tr.up.status = 429 /\ tr.up.data # {}
    /\ tr.response.status = 500

\* The header test as worded: both cells look like labels.
detectHeaderBoth(row) ==
    /\ includes(Cell(row, 1), "name")
    /\ includes(Cell(row, 2), "wallet") \/ includes(Cell(row, 2), "address")

\* C21: fetchTrackedWallets skips the first row as a header only if its first
\* cell looks like a name label and its second like a wallet or address
\* label; every other row yields, in file order, an entry exactly when its
\* trader and wallet cells are both non-empty.
C21_HeaderNeedsBothLabels ==
    LET rows == CsvRowsOf(csvLog.lines)
    IN  csvLog.called => csvLog.wallets =
            IF rows = <<>> THEN <<>>
            ELSE EntriesOf(IF detectHeaderBoth(rows[1]) THEN Tail(rows)
                           ELSE rows)

====
